---- MODULE Spec2Model ----
(***************************************************************************)
(* A model of dilog (src/dilog.h): a channel that records a trace of       *)
(* framed lines on its first run and verifies the same trace, up to a      *)
(* reordering of block iterations, on later runs.                          *)
(*                                                                         *)
(* Text is modelled as it is: a string is a sequence of one-character      *)
(* strings, a trace file a sequence of lines.  A file offset is the number *)
(* of lines that precede it (every offset the program takes or seeks to is *)
(* the start of a line, and the order of offsets is the order of these     *)
(* numbers); tellg() of a failed stream is -1.                             *)
(***************************************************************************)
EXTENDS Integers, Sequences, FiniteSets, TLC

VARIABLES
    file,       \* lines of <channel>.dilog, without their newline
    fWriting,   \* TRUE: the channel writes (record), FALSE: it reads (verify)
    pos,        \* read offset of fReading
    fail,       \* fReading has its failbit set
    fLineno,    \* dilog::fLineno
    fBlocks,    \* dilog::fBlocks, bottom first; elements are block objects
    fBlanks,    \* dilog::fBlanks
    fBreplay,   \* dilog::fBreplay
    fRecord,    \* dilog::fRecord
    fBlinks,    \* dilog::fBlinks
    fError,     \* dilog::fError: [kind, line]; kind "" is the empty string
    heap,       \* the block objects ever constructed, by address
    proc,       \* "run", or how the process ended
    user,       \* the block handles the caller holds, innermost last
    hist,       \* the calls of this run and how each returned
    rhist,      \* the calls of the run that recorded the file
    fThread_id, \* dilog::fThread_id; nothread while dilogs has no channel
    got         \* per thread: the get() whose reference it is working with

vars == <<file, fWriting, pos, fail, fLineno, fBlocks, fBlanks, fBreplay,
          fRecord, fBlinks, fError, heap, proc, user, hist, rhist,
          fThread_id, got>>

(***************************************************************************)
(* Bounds of the model.                                                    *)
(***************************************************************************)
MaxRec == 5          \* calls of a recording run
MaxVer == 5          \* calls of a verifying run that catches exceptions
MaxDepth == 2        \* user blocks open at once
MaxIter == 3         \* iterations of the recorded loop
MaxLeaves == 3       \* messages of all iterations of the recorded loop
MaxExtra == 1        \* calls a verifying run makes beyond the recorded ones
MaxThreads == 2      \* threads that use the channel
MaxShared == 5       \* steps of the threads that share the channel
MaxHanded == 8       \* steps of the threads that verify a recording

Names == {<<"L">>}
Msgs == {<<"a">>, <<"b">>}
\* a text that no recording holds
Foreign == <<"i", "=", "9">>

(***************************************************************************)
(* Strings.                                                                *)
(***************************************************************************)
fChannel == <<"c">>

npos == -1

max_message_size == 999

\* std::string::find(sub): the index (from 0) of the first occurrence
Find(s, sub) ==
    LET hits == {i \in 0..(Len(s) - Len(sub)) :
                    SubSeq(s, i + 1, i + Len(sub)) = sub}
    IN  IF hits = {} THEN npos
        ELSE CHOOSE i \in hits : \A j \in hits : i <= j

\* std::string::find_last_of("/")
FindLastOf(s, ch) ==
    LET hits == {i \in 0..(Len(s) - 1) : s[i + 1] = ch}
    IN  IF hits = {} THEN npos
        ELSE CHOOSE i \in hits : \A j \in hits : i >= j

\* std::string::substr(from)
Substr(s, from) == SubSeq(s, from + 1, Len(s))

\* vsnprintf into msg[max_message_size + 1], then cut at the first newline
Format(text) ==
    LET cut == IF Len(text) > max_message_size - 1
                  THEN SubSeq(text, 1, max_message_size - 1) ELSE text
        nl == Find(cut, <<"\n">>)
    IN  IF nl = npos THEN cut ELSE SubSeq(cut, 1, nl)

OpenFrame(prefix) == <<"[">> \o prefix \o <<"[">>
CloseFrame(prefix) == <<"]">> \o prefix \o <<"]">>
MessageLine(prefix, msg) == <<"[">> \o prefix \o <<"]">> \o msg

EnterBlock(prefix) == <<"[", "[">> \o prefix
LeaveBlock(prefix) == <<"]", "]">> \o prefix
Message(msg) == <<"[", "]">> \o msg

(***************************************************************************)
(* Small helpers: stacks and the ordered maps of fBlinks.                  *)
(***************************************************************************)
Top(st) == st[Len(st)]
Pop(st) == SubSeq(st, 1, Len(st) - 1)

MapPut(m, k, v) == [x \in (DOMAIN m) \cup {k} |-> IF x = k THEN v ELSE m[x]]
MapErase(m, k) == [x \in (DOMAIN m) \ {k} |-> m[x]]
MinKey(m) == CHOOSE k \in DOMAIN m : \A j \in DOMAIN m : k <= j
MaxKey(m) == CHOOSE k \in DOMAIN m : \A j \in DOMAIN m : k >= j
EmptyMap == [x \in {} |-> 0]

(***************************************************************************)
(* Threads are numbered from 1, the main thread first; nothread is the     *)
(* fThread_id of a channel that no get has made yet.                       *)
(***************************************************************************)
nothread == 0
Threads == 1..MaxThreads
Main == 1

(***************************************************************************)
(* The channel as one value d, so that the handlers can be written as      *)
(* functions from channel to channel.  d.exc tells how the call in         *)
(* progress is ending: "none" (still running, or returned), "throw" (a     *)
(* std::runtime_error is propagating), "assert" (an assert failed),        *)
(* "terminate" (an exception left a destructor) or "ub" (the call did      *)
(* something undefined: top() or pop() of an empty stack, a use of a       *)
(* destroyed block).  d.ret is the value next_block returned.  d.searches  *)
(* counts the times the call in progress has entered next_block; a call    *)
(* that enters it more often than the file has lines is taken not to       *)
(* return, and ends as "hang".  d.tid is the thread that makes the call,   *)
(* std::this_thread::get_id(): the main thread, 1, unless the call is one  *)
(* of the threads that share the channel.                                  *)
(***************************************************************************)
Chan == [file |-> file, writing |-> fWriting, pos |-> pos, fail |-> fail,
         lineno |-> fLineno, blocks |-> fBlocks, blanks |-> fBlanks,
         breplay |-> fBreplay, record |-> fRecord, blinks |-> fBlinks,
         err |-> fError, heap |-> heap, exc |-> "none", ret |-> FALSE,
         thread |-> fThread_id, searches |-> 0, tid |-> Main]

NoError == [kind |-> "", line |-> 0]
\* the line count as it was before the line in error was read
ErrorBeforeCount(kind, d) == [kind |-> kind, line |-> d.lineno - 1]
Error(kind, d) == [kind |-> kind, line |-> d.lineno]

Raise(d, how) == [d EXCEPT !.exc = how]

(***************************************************************************)
(* dilog::get.  The whole body runs under the static mutex, so a call of   *)
(* get is one step.                                                        *)
(***************************************************************************)
ThreadError == [kind |-> "thread", line |-> 0]

\* the test of line 223 without the thread: every checked get is refused
get_refusing(d, tid, threadsafe) ==
    IF threadsafe
    THEN Raise([d EXCEPT !.err = ThreadError], "throw")
    ELSE d

\* lines 223-229, for the channel d that is in dilogs
get(d, tid, threadsafe) ==
    IF threadsafe /\ d.thread # tid
    THEN Raise([d EXCEPT !.err = ThreadError], "throw")
    ELSE d

\* the std::ifstream: getline, tellg, seekg
Good(d) == ~d.fail /\ d.pos < Len(d.file)
NextLine(d) == d.file[d.pos + 1]
Tellg(d) == IF d.fail THEN -1 ELSE d.pos
Seekg(d, off) ==
    IF d.fail THEN d
    ELSE IF off < 0 THEN [d EXCEPT !.fail = TRUE]
    ELSE [d EXCEPT !.pos = off]
\* getline took a line and the loop body counted it
Took(d) == [d EXCEPT !.pos = @ + 1, !.lineno = @ + 1]
\* getline found no line
AtEof(d) == [d EXCEPT !.fail = TRUE]

BlinksOf(d, prefix) ==
    IF prefix \in DOMAIN d.blinks THEN d.blinks[prefix] ELSE EmptyMap
SetBlinks(d, prefix, m) ==
    [d EXCEPT !.blinks = [q \in (DOMAIN d.blinks) \cup {prefix} |->
                             IF q = prefix THEN m ELSE d.blinks[q]]]

\* the block made by the private constructor block() and named bot
NewBlock(chan, name) ==
    [chan |-> chan, name |-> name, prefix |-> << >>, base |-> 0,
     beginline |-> 0, ireplay |-> 0, live |-> TRUE]

Usable(d, st) == st # << >> /\ d.heap[Top(st)].live

RECURSIVE next_block(_, _)
RECURSIVE Replay(_, _, _)
RECURSIVE ReplayScan(_, _, _, _, _)
RECURSIVE Dtor(_, _)
RECURSIVE DtorScan(_, _)
RECURSIVE Ctor(_, _)
RECURSIVE CtorScan(_, _)
RECURSIVE SkipTo(_, _)
RECURSIVE CheckScan(_, _, _)
RECURSIVE Diagnose(_, _)

\* a local: v is computed once and named in what follows
With(v, F(_)) == F(v)

(***************************************************************************)
(* dilog::block::block, from the fError test on.                           *)
(***************************************************************************)
CtorScan(d, id) ==
    LET prefix == d.heap[id].prefix IN
    IF ~Good(d) THEN AtEof(d)
    ELSE LET nextmsg == NextLine(d)
             d1 == Took(d)
         IN  IF Find(nextmsg, prefix) # 1
             THEN CtorScan([d1 EXCEPT !.heap[id].base = Tellg(d1),
                                      !.heap[id].beginline = d1.lineno], id)
             ELSE IF nextmsg = OpenFrame(prefix)
             THEN [d1 EXCEPT !.record = Append(@, EnterBlock(prefix)),
                             !.heap[id].ireplay = Len(d1.record) + 1]
             ELSE Raise([d1 EXCEPT !.err = Error("block", d1)], "throw")

Ctor(d, blockname) ==
    IF d.err.kind # "" THEN Raise(d, "throw")
    ELSE IF ~Usable(d, d.blocks) THEN Raise(d, "ub")
    ELSE
    LET id == Len(d.heap) + 1
        top == d.heap[Top(d.blocks)]
        this == [NewBlock(fChannel, blockname) EXCEPT
                    !.prefix = top.prefix \o <<"/">> \o blockname]
        d1 == [d EXCEPT !.heap = Append(@, this), !.blocks = Append(@, id)]
    IN  IF d1.writing
        THEN [d1 EXCEPT !.file = Append(@, OpenFrame(this.prefix)),
                        !.lineno = @ + 1]
        ELSE With(CtorScan([d1 EXCEPT !.heap[id].base = Tellg(d1),
                                      !.heap[id].beginline = d1.lineno], id),
                  LAMBDA d2 :
                     IF d2.exc = "none" THEN d2
                     ELSE [d2 EXCEPT !.heap[id].live = FALSE])

(***************************************************************************)
(* dilog::block::~block.  The destructor is noexcept: an exception that    *)
(* reaches its end calls std::terminate.                                   *)
(***************************************************************************)
DtorScan(d, id) ==
    LET prefix == d.heap[id].prefix IN
    IF ~Good(d) THEN AtEof(d)
    ELSE LET nextmsg == NextLine(d)
             d1 == Took(d)
         IN  IF Find(nextmsg, prefix) # 1 THEN DtorScan(d1, id)
             ELSE IF nextmsg = CloseFrame(prefix) THEN d1
             ELSE With(next_block(d1, nextmsg), LAMBDA d2 :
                     IF d2.exc # "none" THEN d2
                     ELSE IF d2.ret THEN DtorScan(d2, id)
                     ELSE DtorScan([d2 EXCEPT !.err = Error("endblock", d2)],
                                   id))

\* lines 174-192 without lines 181-182: the stream stays behind the
\* closing frame, the other bookkeeping is as in DtorLinks
DtorLinksNoSeek(d, id) ==
    LET prefix == d.heap[id].prefix
        base == Tellg(d)
    IN  With(MapErase(BlinksOf(d, prefix), d.heap[id].base), LAMBDA blinks1 :
        With(IF base > MaxKey(blinks1)
                THEN MapPut(blinks1, base, d.lineno) ELSE blinks1,
             LAMBDA blinks2 :
        With(IF DOMAIN blinks1 = {} THEN SetBlinks(d, prefix, blinks1)
             ELSE [SetBlinks(d, prefix, MapErase(blinks2, MinKey(blinks2)))
                      EXCEPT !.heap[id].base = base],
             LAMBDA d1 :
        IF d1.blocks = << >> THEN Raise(d1, "ub")
        ELSE [d1 EXCEPT !.record = IF Len(d1.blocks) > 2
                                      THEN Append(@, LeaveBlock(prefix))
                                      ELSE << >>,
                        !.blocks = Pop(@)])))

\* lines 174-192 without line 182: the stream goes back to the unmatched
\* iteration and the line counter stays where the closing frame was read
DtorLinksKeepLineno(d, id) ==
    LET prefix == d.heap[id].prefix
        base == Tellg(d)
    IN  With(MapErase(BlinksOf(d, prefix), d.heap[id].base), LAMBDA blinks1 :
        With(IF base > MaxKey(blinks1)
                THEN MapPut(blinks1, base, d.lineno) ELSE blinks1,
             LAMBDA blinks2 :
        With(IF DOMAIN blinks1 = {} THEN SetBlinks(d, prefix, blinks1)
             ELSE [SetBlinks(Seekg(d, MinKey(blinks2)), prefix,
                             MapErase(blinks2, MinKey(blinks2)))
                      EXCEPT !.heap[id].base = base],
             LAMBDA d1 :
        IF d1.blocks = << >> THEN Raise(d1, "ub")
        ELSE [d1 EXCEPT !.record = IF Len(d1.blocks) > 2
                                      THEN Append(@, LeaveBlock(prefix))
                                      ELSE << >>,
                        !.blocks = Pop(@)])))

\* lines 174-192
DtorLinks(d, id) ==
    LET prefix == d.heap[id].prefix
        base == Tellg(d)
    IN  With(MapErase(BlinksOf(d, prefix), d.heap[id].base), LAMBDA blinks1 :
        With(IF base > MaxKey(blinks1)
                THEN MapPut(blinks1, base, d.lineno) ELSE blinks1,
             LAMBDA blinks2 :
        With(IF DOMAIN blinks1 = {} THEN SetBlinks(d, prefix, blinks1)
             ELSE [SetBlinks(Seekg(d, MinKey(blinks2)), prefix,
                             MapErase(blinks2, MinKey(blinks2)))
                      EXCEPT !.heap[id].base = base,
                             !.lineno = blinks2[MinKey(blinks2)]],
             LAMBDA d1 :
        IF d1.blocks = << >> THEN Raise(d1, "ub")
        ELSE [d1 EXCEPT !.record = IF Len(d1.blocks) > 2
                                      THEN Append(@, LeaveBlock(prefix))
                                      ELSE << >>,
                        !.blocks = Pop(@)])))

Dtor(d, id) ==
    LET this == d.heap[id] IN
    IF this.chan = << >> THEN d
    ELSE IF d.blocks = << >> THEN Raise(d, "ub")
    ELSE IF Top(d.blocks) # id THEN d
    ELSE IF d.writing
    THEN [d EXCEPT !.file = Append(@, CloseFrame(this.prefix)),
                   !.lineno = @ + 1, !.blocks = Pop(@)]
    ELSE With(DtorScan(d, id), LAMBDA d1 :
            IF d1.exc = "throw" THEN Raise(d1, "terminate")
            ELSE IF d1.exc # "none" THEN d1
            ELSE DtorLinks(d1, id))

\* delete p: the destructor runs, then the object is gone
Delete(d, id) ==
    IF ~d.heap[id].live THEN Raise(d, "ub")
    ELSE [Dtor(d, id) EXCEPT !.heap[id].live = FALSE]

(***************************************************************************)
(* dilog::next_block.                                                      *)
(***************************************************************************)
\* lines 355-359: read up to and including the line mexpected
SkipTo(d, mexpected) ==
    IF ~Good(d) THEN AtEof(d)
    ELSE IF NextLine(d) = mexpected THEN Took(d)
    ELSE SkipTo(Took(d), mexpected)

\* lines 446-472: fBlinks[prefix] makes an entry for every block the
\* diagnostic names
Diagnose(d, i) ==
    IF i > Len(d.record) THEN d
    ELSE IF Find(d.record[i], <<"[", "[">>) = 0
    THEN LET prefix == Substr(d.record[i], 2)
         IN  Diagnose(SetBlinks(d, prefix, BlinksOf(d, prefix)), i + 1)
    ELSE Diagnose(d, i + 1)

\* lines 406-423: an opening frame of the journal was found again.  The
\* new block(fChannel, ...) of line 418 is the public constructor with its
\* default threadsafe = true: dilog::get of line 94 runs in the calling
\* thread before the rest of the constructor, and throws out of next_block
\* when that thread is not the one of the channel
ReplayEnter(d, ireplay, prefix) ==
    IF d.blanks # << >> /\ ~d.heap[Top(d.blanks)].live THEN Raise(d, "ub")
    ELSE IF /\ Len(d.blanks) > 0
            /\ d.heap[Top(d.blanks)].prefix = prefix
            /\ d.heap[Top(d.blanks)].ireplay = ireplay + 1
    THEN [d EXCEPT !.heap[Top(d.blanks)].base = Tellg(d),
                   !.heap[Top(d.blanks)].beginline = d.lineno,
                   !.blocks = Append(@, Top(d.blanks)),
                   !.blanks = Pop(@)]
    ELSE LET at == FindLastOf(prefix, "/") + 1
             bnew == Len(d.heap) + 1
         IN  With(get(d, d.tid, TRUE), LAMBDA d0 :
                IF d0.exc # "none" THEN d0
                ELSE With(Ctor(d0, Substr(prefix, at)), LAMBDA d1 :
                        IF d1.exc # "none" THEN d1
                        ELSE [d1 EXCEPT !.heap[bnew].ireplay = ireplay + 1,
                                        !.breplay = Append(@, bnew),
                                        !.blocks = Append(@, bnew)]))

\* lines 424-431: a closing frame of the journal was found again
ReplayLeave(d) ==
    IF ~(Len(d.breplay) > 0) THEN Raise(d, "assert")
    ELSE IF d.blocks = << >> THEN Raise(d, "ub")
    ELSE IF ~(Top(d.breplay) = Top(d.blocks)) THEN Raise(d, "assert")
    ELSE With(Delete(d, Top(d.breplay)), LAMBDA d1 :
            IF d1.exc # "none" THEN d1
            ELSE IF d1.breplay = << >> \/ Len(d1.blocks) < 2
            THEN Raise(d1, "ub")
            ELSE [d1 EXCEPT !.breplay = Pop(@), !.blocks = Pop(@)])

\* lines 400-433: look for the line of journal entry ireplay
ReplayScan(d, ireplay, prefix, mexpected, dir) ==
    IF ~Good(d) THEN Replay(AtEof(d), ireplay + 1, prefix)
    ELSE LET nextmsg == NextLine(d)
             d1 == Took(d)
         IN  IF Find(nextmsg, prefix) # 1
             THEN ReplayScan(d1, ireplay, prefix, mexpected, dir)
             ELSE IF nextmsg # mexpected THEN next_block(d1, nextmsg)
             ELSE IF dir = 1
             THEN With(ReplayEnter(d1, ireplay, prefix), LAMBDA d2 :
                     IF d2.exc # "none" THEN d2
                     ELSE Replay(d2, ireplay + 1, prefix))
             ELSE IF dir = -1
             THEN With(ReplayLeave(d1), LAMBDA d2 :
                     IF d2.exc # "none" THEN d2
                     ELSE IF ~d2.heap[Top(d2.blocks)].live
                     THEN Raise(d2, "ub")
                     ELSE Replay(d2, ireplay + 1,
                                 d2.heap[Top(d2.blocks)].prefix))
             ELSE Replay(d1, ireplay + 1, prefix)

\* lines 383-437: the journal from entry ireplay (counted from 0) on
Replay(d, ireplay, prefix) ==
    IF ireplay < Len(d.record)
    THEN LET entry == d.record[ireplay + 1]
             dir == IF Find(entry, <<"[", "[">>) = 0 THEN 1
                    ELSE IF Find(entry, <<"]", "]">>) = 0 THEN -1
                    ELSE 0
             next == IF dir = 0 THEN prefix ELSE Substr(entry, 2)
             mexpected == IF dir = 1 THEN OpenFrame(next)
                          ELSE IF dir = -1 THEN CloseFrame(next)
                          ELSE MessageLine(prefix, Substr(entry, 2))
         IN  ReplayScan(d, ireplay, next, mexpected, dir)
    ELSE IF ~(Len(d.breplay) = 0) THEN Raise(d, "assert")
    ELSE IF ~(Len(d.blanks) = 0) THEN Raise(d, "assert")
    ELSE [d EXCEPT !.ret = TRUE]

\* lines 373-379: the block on top leaves the stack, a block of the replay
\* is deleted and a block of the user is kept in fBlanks
Unstack(d) ==
    IF Len(d.breplay) > 0 /\ Top(d.breplay) = Top(d.blocks)
    THEN With(Delete(d, Top(d.blocks)), LAMBDA d2 :
            IF d2.exc # "none" THEN d2
            ELSE IF d2.breplay = << >> THEN Raise(d2, "ub")
            ELSE [d2 EXCEPT !.breplay = Pop(@)])
    ELSE [d EXCEPT !.blanks = Append(@, Top(d.blocks))]

\* lines 369-381: the line after the candidate offset is not the opening
\* frame of top: top leaves the stack and the search goes on one level up
PopTop(d, nextmsg) ==
    With(Unstack(d), LAMBDA d1 :
       IF d1.exc # "none" THEN d1
       ELSE IF d1.blocks = << >> THEN Raise(d1, "ub")
       ELSE next_block([d1 EXCEPT !.blocks = Pop(@)], nextmsg))

\* lines 361-367 with the first unmatched iteration of the block for the
\* one after base
NextLinkFirst(d, id) ==
    LET top == d.heap[id]
        blinks == d.blinks[top.prefix]
        blink == MinKey(blinks)
    IN  With(IF DOMAIN blinks # {}
                THEN [Seekg(d, blink) EXCEPT !.lineno = blinks[blink]]
                ELSE d,
             LAMBDA d3 : [d3 EXCEPT !.heap[id].base = Tellg(d3),
                                    !.heap[id].beginline = d3.lineno])

\* lines 361-367: on to the unmatched iteration after base, when there
\* is one, and top keeps the place
NextLink(d, id) ==
    LET top == d.heap[id]
        blinks == d.blinks[top.prefix]
        later == {k \in DOMAIN blinks : k > top.base}
        blink == CHOOSE k \in later : \A j \in later : k <= j
    IN  With(IF later # {}
                THEN [Seekg(d, blink) EXCEPT !.lineno = blinks[blink]]
                ELSE d,
             LAMBDA d3 : [d3 EXCEPT !.heap[id].base = Tellg(d3),
                                    !.heap[id].beginline = d3.lineno])

next_block(d, lastmsg) ==
    IF d.searches >= Len(d.file) THEN Raise(d, "hang")
    ELSE IF Len(d.blocks) > 1
    THEN
      IF ~d.heap[Top(d.blocks)].live THEN Raise(d, "ub")
      ELSE
      LET id == Top(d.blocks)
          top == d.heap[id]
      IN  \* lines 351-360
          With(SetBlinks([d EXCEPT !.searches = @ + 1], top.prefix,
                         MapPut(BlinksOf(d, top.prefix), top.base,
                                top.beginline)),
               LAMBDA d1 :
          With(IF lastmsg # CloseFrame(top.prefix)
                  THEN SkipTo(d1, CloseFrame(top.prefix)) ELSE d1,
               LAMBDA d2 :
          With(NextLink(d2, id), LAMBDA d4 :
          \* lines 369-381
          IF ~Good(d4) THEN Replay(AtEof(d4), top.ireplay, top.prefix)
          ELSE IF NextLine(d4) = OpenFrame(top.prefix)
          THEN Replay(Took(d4), top.ireplay, top.prefix)
          ELSE PopTop(Took(d4), NextLine(d4)))))
    ELSE IF d.blocks = << >> THEN Raise(d, "ub")
    ELSE [Diagnose(d, 1) EXCEPT !.ret = FALSE, !.searches = @ + 1]

(***************************************************************************)
(* dilog::check_message and dilog::printf.                                 *)
(***************************************************************************)
CheckScan(d, prefix, mexpected) ==
    IF ~Good(d)
    THEN Raise([AtEof(d) EXCEPT !.err = Error("read", d)], "throw")
    ELSE LET nextmsg == NextLine(d)
             d1 == Took(d)
         IN  IF Find(nextmsg, prefix) # 1
             THEN CheckScan(d1, prefix, mexpected)
             ELSE IF nextmsg = mexpected THEN d1
             ELSE With(next_block(d1, nextmsg), LAMBDA d2 :
                     IF d2.exc # "none" THEN d2
                     ELSE IF d2.ret THEN CheckScan(d2, prefix, mexpected)
                     ELSE Raise([d2 EXCEPT !.err = Error("mismatch", d2)],
                                "throw"))

\* lines 306-307: msg.erase(nl) cuts the message at its first newline
EraseNewline(message) ==
    IF Find(message, <<"\n">>) = npos THEN message
    ELSE SubSeq(message, 1, Find(message, <<"\n">>))

\* the expected line built from the channel name, not from the prefix of
\* the block on top
check_message_channel(d, message) ==
    LET msg == EraseNewline(message)
        top == d.heap[Top(d.blocks)]
    IN  CheckScan(d, top.prefix, MessageLine(fChannel, msg))

\* the scan of lines 311-326 started at the beginning of the file
check_message_rewound(d, message) ==
    LET msg == EraseNewline(message)
        top == d.heap[Top(d.blocks)]
    IN  CheckScan(Seekg(d, 0), top.prefix, MessageLine(top.prefix, msg))

check_message(d, message) ==
    LET msg == EraseNewline(message)
        top == d.heap[Top(d.blocks)]
    IN  CheckScan(d, top.prefix, MessageLine(top.prefix, msg))

\* printf with a record branch that writes the line and does not count it
printf_uncounted(d, text) ==
    IF d.err.kind # "" THEN Raise(d, "throw")
    ELSE IF ~Usable(d, d.blocks) THEN Raise(d, "ub")
    ELSE LET msg == Format(text)
             top == d.heap[Top(d.blocks)]
         IN  IF d.writing
             THEN [d EXCEPT !.file = Append(@, MessageLine(top.prefix, msg))]
             ELSE With(check_message(d, msg), LAMBDA d1 :
                     IF d1.exc # "none" THEN d1
                     ELSE IF Len(d1.blocks) > 1
                     THEN [d1 EXCEPT !.record = Append(@, Message(msg))]
                     ELSE d1)

printf(d, text) ==
    IF d.err.kind # "" THEN Raise(d, "throw")
    ELSE IF ~Usable(d, d.blocks) THEN Raise(d, "ub")
    ELSE LET msg == Format(text)
             top == d.heap[Top(d.blocks)]
         IN  IF d.writing
             THEN [d EXCEPT !.file = Append(@, MessageLine(top.prefix, msg)),
                            !.lineno = @ + 1]
             ELSE With(check_message(d, msg), LAMBDA d1 :
                     IF d1.exc # "none" THEN d1
                     ELSE IF Len(d1.blocks) > 1
                     THEN [d1 EXCEPT !.record = Append(@, Message(msg))]
                     ELSE d1)

(***************************************************************************)
(* The channel after dilog::dilog(channel): bot is the only block; the     *)
(* channel reads when the file exists and writes a new file when not.      *)
(***************************************************************************)
bot == [NewBlock(<< >>, << >>) EXCEPT !.prefix = fChannel]

dilog(exists, lines) ==
    [file |-> IF exists THEN lines ELSE << >>, writing |-> ~exists,
     pos |-> 0, fail |-> FALSE, lineno |-> 0, blocks |-> <<1>>,
     blanks |-> << >>, breplay |-> << >>, record |-> << >>,
     blinks |-> EmptyMap, err |-> NoError, heap |-> <<bot>>,
     exc |-> "none", ret |-> FALSE, thread |-> nothread, searches |-> 0,
     tid |-> nothread]

\* dilog::get, lines 219-222: the channel is new in dilogs and tid is its
\* thread
Created(exists, lines, tid) ==
    [dilog(exists, lines) EXCEPT !.thread = tid, !.tid = tid]

\* the channel d is the channel a process starts with
Constructed(d) ==
    /\ file = d.file
    /\ fWriting = d.writing
    /\ pos = d.pos
    /\ fail = d.fail
    /\ fLineno = d.lineno
    /\ fBlocks = d.blocks
    /\ fBlanks = d.blanks
    /\ fBreplay = d.breplay
    /\ fRecord = d.record
    /\ fBlinks = d.blinks
    /\ fError = d.err
    /\ heap = d.heap
    /\ proc = "run"
    /\ user = << >>
    /\ hist = << >>
    /\ fThread_id = d.thread
    /\ got = [t \in Threads |-> "no"]

Init ==
    /\ \E d \in {Created(FALSE, << >>, Main)} : Constructed(d)
    /\ rhist = << >>

\* the channel d is the channel after the call
Becomes(d) ==
    /\ file' = d.file
    /\ fWriting' = d.writing
    /\ pos' = d.pos
    /\ fail' = d.fail
    /\ fLineno' = d.lineno
    /\ fBlocks' = d.blocks
    /\ fBlanks' = d.blanks
    /\ fBreplay' = d.breplay
    /\ fRecord' = d.record
    /\ fBlinks' = d.blinks
    /\ fError' = d.err
    /\ heap' = d.heap
    /\ proc' = (IF d.exc \in {"none", "throw"} THEN "run" ELSE d.exc)
    /\ fThread_id' = d.thread

Returned(d) == IF d.exc = "none" THEN "ok" ELSE d.exc
Call(name, arg, d) == [call |-> name, arg |-> arg, how |-> Returned(d)]

\* what the caller passes: a recording run draws from Names and Msgs, with
\* a as its first text (which text is which makes no difference to the
\* channel); a verifying run also repeats what the recording run passed,
\* or passes a text that was never recorded
Passed(call) == {rhist[i].arg : i \in {j \in 1..Len(rhist) : rhist[j].call = call}}
BlockNames == IF fWriting THEN Names ELSE Names \cup Passed("block")
Texts ==
    IF ~fWriting THEN Passed("printf") \cup {Foreign}
    ELSE IF \E i \in 1..Len(hist) : hist[i].call = "printf" THEN Msgs
    ELSE {<<"a">>}

\* a caller that catches what a call throws and goes on
Catching == Len(hist) < (IF fWriting THEN MaxRec ELSE MaxVer)
\* a caller that lets the first exception end the run
Strict ==
    /\ IF hist = << >> THEN TRUE ELSE hist[Len(hist)].how = "ok"
    /\ Len(hist) < Len(rhist) + MaxExtra

(***************************************************************************)
(* The calls of the user.                                                  *)
(***************************************************************************)
\* dilog::block myloop(channel, blockname);
Block(blockname) ==
    /\ proc = "run"
    /\ Len(user) < MaxDepth
    /\ \E d \in {Ctor(Chan, blockname)} :
           /\ Becomes(d)
           /\ user' = (IF d.exc = "none" THEN Append(user, Len(heap) + 1)
                       ELSE user)
           /\ hist' = Append(hist, Call("block", blockname, d))
    /\ UNCHANGED <<rhist, got>>

\* dilog::get(channel).printf("%s\n", text);
Printf(text) ==
    /\ proc = "run"
    /\ \E d \in {printf(Chan, text)} :
           /\ Becomes(d)
           /\ hist' = Append(hist, Call("printf", text, d))
    /\ UNCHANGED <<user, rhist, got>>

\* the innermost block handle of the user leaves its scope
Close ==
    /\ proc = "run"
    /\ user # << >>
    /\ \E d \in {Delete(Chan, Top(user))} :
           /\ Becomes(d)
           /\ hist' = Append(hist, Call("close", << >>, d))
    /\ user' = Pop(user)
    /\ UNCHANGED <<rhist, got>>

\* dilog::get(channel).get_lineno(); the caller of a verifying run asks for
\* the line when the call before has thrown
GetLineno ==
    /\ proc = "run"
    /\ ~fWriting
    /\ hist # << >>
    /\ hist[Len(hist)].how = "throw"
    /\ hist' = Append(hist, [call |-> "get_lineno", arg |-> << >>,
                             how |-> "ok"])
    /\ UNCHANGED <<file, fWriting, pos, fail, fLineno, fBlocks, fBlanks,
                   fBreplay, fRecord, fBlinks, fError, heap, proc, user,
                   rhist, fThread_id, got>>

\* the process ends and the program runs again in the same directory
Restart ==
    /\ ~(user # << >> /\ proc = "run")
    /\ hist # << >>
    /\ \E d \in {Created(TRUE, file, Main)} : Becomes(d)
    /\ user' = << >>
    /\ hist' = << >>
    /\ rhist' = (IF fWriting THEN hist ELSE rhist)
    /\ UNCHANGED got

Next ==
    \/ /\ Catching
       /\ \/ \E blockname \in BlockNames : Block(blockname)
          \/ \E text \in Texts : Printf(text)
          \/ Close
          \/ GetLineno
    \/ Restart

Spec == Init /\ [][Next]_vars

(***************************************************************************)
(* Verifying runs against a given recording.  Recorded(calls) is the       *)
(* channel a recording run leaves after the calls.                         *)
(***************************************************************************)
RECURSIVE Recording(_, _, _, _)
Recording(d, handles, calls, i) ==
    IF i > Len(calls) THEN d
    ELSE LET c == calls[i]
         IN  IF c.call = "block"
             THEN Recording(Ctor(d, c.arg), Append(handles, Len(d.heap) + 1),
                            calls, i + 1)
             ELSE IF c.call = "printf"
             THEN Recording(printf(d, c.arg), handles, calls, i + 1)
             ELSE Recording(Delete(d, Top(handles)), Pop(handles), calls,
                            i + 1)

Recorded(calls) ==
    Recording(Created(FALSE, << >>, Main), << >>, calls, 1)

Ok(call, arg) == [call |-> call, arg |-> arg, how |-> "ok"]

\* the calls of one iteration of block blockname around the calls body
Iteration(blockname, body) ==
    <<Ok("block", blockname)>> \o body \o <<Ok("close", << >>)>>
Leaves(texts) == [i \in 1..Len(texts) |-> Ok("printf", texts[i])]

RECURSIVE Flat(_)
Flat(seqs) == IF seqs = << >> THEN << >> ELSE Head(seqs) \o Flat(Tail(seqs))

SeqsUpTo(S, n) == UNION {[1..k -> S] : k \in 0..n}

\* the loops of at most n iterations that hold at most m messages in all
RECURSIVE Loops(_, _)
Loops(n, m) ==
    IF n = 0 THEN {<< >>}
    ELSE {<< >>} \cup
         UNION {{<<body>> \o its : its \in Loops(n - 1, m - Len(body))} :
                   body \in SeqsUpTo(Msgs, m)}

\* a loop of block L directly under the root, leaf messages only, and then
\* at most one message of the root
LoopBodies == Loops(MaxIter, MaxLeaves)
LoopRuns ==
    {Flat([i \in 1..Len(its) |-> Iteration(<<"L">>, Leaves(its[i]))]) \o after :
        its \in LoopBodies,
        after \in {<< >>, <<Ok("printf", <<"a">>)>>}}

InitLoop ==
    /\ rhist \in LoopRuns
    /\ \E d \in {Created(TRUE, Recorded(rhist).file, Main)} : Constructed(d)

NextStrict ==
    /\ Strict
    /\ \/ \E blockname \in BlockNames : user = << >> /\ Block(blockname)
       \/ \E text \in Texts : Printf(text)
       \/ Close

SpecLoop == InitLoop /\ [][NextStrict]_vars

(***************************************************************************)
(* The recorded scenarios of the specification: S1 (the messages a and b   *)
(* of the root), S3 (three iterations of L with the messages i=0, i=1,     *)
(* i=2), S4 (block O twice, each with block I twice, one message per inner *)
(* iteration) and S5 (two iterations of L).                                *)
(***************************************************************************)
S1Run == <<Ok("printf", <<"a">>), Ok("printf", <<"b">>)>>
S3Text(i) == <<"i", "=", i>>
S3Run ==
    Flat([i \in 1..3 |->
            Iteration(<<"L">>, <<Ok("printf", S3Text(<<"0", "1", "2">>[i]))>>)])

Inner(o, i) == Iteration(<<"I">>, <<Ok("printf", <<"o", o, "_", "i", i>>)>>)
Outer(o, first, second) ==
    Iteration(<<"O">>, Inner(o, first) \o Inner(o, second))
S4Run == Outer("0", "0", "1") \o Outer("1", "0", "1")
\* the outer iterations swapped and the inner iterations swapped in each
S4Swapped == Outer("1", "1", "0") \o Outer("0", "1", "0")

\* the runs that verify a scenario: the recorded iterations in any order,
\* for S3 also with the message of one iteration replaced by a text that
\* was not recorded
OrdersUpTo ==
    [n \in 0..MaxIter |->
        {f \in [1..n -> 1..n] : \A i, j \in 1..n : f[i] = f[j] => i = j}]
Orders(n) == OrdersUpTo[n]
S3Order(f, divergent) ==
    Flat([i \in 1..3 |->
            Iteration(<<"L">>,
                      <<Ok("printf", IF i = divergent THEN Foreign
                                     ELSE S3Text(<<"0", "1", "2">>[f[i]]))>>)])
S5Run ==
    Flat([i \in 1..2 |->
            Iteration(<<"L">>, <<Ok("printf", S3Text(<<"0", "1">>[i]))>>)])

\* S1 again, or with the second message replaced
S1Programs == {<<Ok("printf", <<"a">>), Ok("printf", text)>> :
                  text \in {<<"b">>, Foreign}}
\* S5 in either order, and then a third iteration
S5Programs ==
    {Flat([i \in 1..2 |->
             Iteration(<<"L">>, <<Ok("printf", S3Text(<<"0", "1">>[f[i]]))>>)])
        \o Iteration(<<"L">>, <<Ok("printf", text)>>) :
        f \in Orders(2), text \in {S3Text("0"), S3Text("1"), Foreign}}
S3Programs == {S3Order(f, divergent) : f \in Orders(3), divergent \in 0..3}
S4Programs ==
    {Outer(o[1], i[1], i[2]) \o Outer(o[2], j[1], j[2]) :
        o \in {<<"0", "1">>, <<"1", "0">>},
        i \in {<<"0", "1">>, <<"1", "0">>},
        j \in {<<"0", "1">>, <<"1", "0">>}}
Programs ==
    IF rhist = S1Run THEN S1Programs
    ELSE IF rhist = S3Run THEN S3Programs
    ELSE IF rhist = S4Run THEN S4Programs
    ELSE S5Programs

InitScenario ==
    /\ rhist \in {S1Run, S3Run, S4Run, S5Run}
    /\ \E d \in {Created(TRUE, Recorded(rhist).file, Main)} : Constructed(d)

\* the next call of a program of the scenario may be this one
Follows(call, arg) ==
    \E run \in Programs :
        /\ Len(hist) < Len(run)
        /\ \A i \in 1..Len(hist) :
              hist[i].call = run[i].call /\ hist[i].arg = run[i].arg
        /\ run[Len(hist) + 1].call = call
        /\ run[Len(hist) + 1].arg = arg

NextScenario ==
    /\ IF hist = << >> THEN TRUE ELSE hist[Len(hist)].how = "ok"
    /\ \/ \E blockname \in BlockNames :
             Follows("block", blockname) /\ Block(blockname)
       \/ \E text \in Texts : Follows("printf", text) /\ Printf(text)
       \/ Follows("close", << >>) /\ Close

SpecScenario == InitScenario /\ [][NextScenario]_vars

(***************************************************************************)
(* Recordings that stop early.  Every frame is flushed when it is written  *)
(* (std::endl), so a recording run that is killed, or exits with blocks    *)
(* open, leaves a file that ends anywhere, also behind an opening frame;  *)
(* one that stops before its first frame leaves the empty file that        *)
(* dilog::dilog made (line 282), which the next run verifies against.      *)
(* The run that is cut has block O twice, each time with block I and the   *)
(* message a in it.                                                        *)
(***************************************************************************)
NestedRun ==
    Flat([i \in 1..2 |->
            Iteration(<<"O">>,
                      Iteration(<<"I">>, <<Ok("printf", <<"a">>)>>))])
CutRuns == {SubSeq(NestedRun, 1, n) : n \in 0..Len(NestedRun)}

InitCut ==
    /\ rhist \in CutRuns
    /\ \E d \in {Created(TRUE, Recorded(rhist).file, Main)} : Constructed(d)

NextCut ==
    \/ \E blockname \in BlockNames : Strict /\ Block(blockname)
    \/ \E text \in Texts : Strict /\ Printf(text)
    \/ Strict /\ Close

SpecCut == InitCut /\ [][NextCut]_vars

(***************************************************************************)
(* A recording run whose block objects are not all scoped: a block made by *)
(* new can be deleted while blocks opened after it are still open.         *)
(***************************************************************************)
Without(st, i) == SubSeq(st, 1, i - 1) \o SubSeq(st, i + 1, Len(st))

\* delete of the block handle user[i], which is not the innermost one
Destroy(i) ==
    /\ proc = "run"
    /\ i \in 1..(Len(user) - 1)
    /\ \E d \in {Delete(Chan, user[i])} :
           /\ Becomes(d)
           /\ hist' = Append(hist, Call("destroy", << >>, d))
    /\ user' = Without(user, i)
    /\ UNCHANGED <<rhist, got>>

\* the run makes MaxRec calls at most
Short == Len(hist) < MaxRec

\* a recording run with scoped blocks only: the innermost block closes first
NextRecord ==
    \/ \E blockname \in BlockNames : Short /\ Block(blockname)
    \/ \E text \in Texts : Short /\ Printf(text)
    \/ Short /\ Close

SpecRecord == Init /\ [][NextRecord]_vars

NextUnscoped ==
    \/ NextRecord
    \/ \E i \in 1..(MaxDepth - 1) : Short /\ Destroy(i)

SpecUnscoped == Init /\ [][NextUnscoped]_vars

(***************************************************************************)
(* Threads that share a channel.  A thread calls                           *)
(* dilog::get(channel, threadsafe) and then works with the reference it    *)
(* got: a message, or the rest of a block constructor or destructor.  The  *)
(* mutex of get covers get alone.  What a thread does with its reference   *)
(* while another thread holds one is a data race, and so is the read of    *)
(* fError by a thread whose reference is older than a write of fError by   *)
(* a refused get; work that has ended is ordered before the work that      *)
(* starts later, by whatever hands the channel from thread to thread.      *)
(* The channel records, or it verifies the recording HandedRun: block L    *)
(* twice, with an inner block L and then a message in it, b the first time *)
(* and a the second.  The first get makes the channel (lines 219-222);     *)
(* until then fThread_id is nothread, and the other variables are what     *)
(* dilog::dilog will find.                                                 *)
(***************************************************************************)
HandedRun ==
    Iteration(<<"L">>, Iteration(<<"L">>, << >>) \o <<Ok("printf", <<"b">>)>>)
    \o Iteration(<<"L">>, Iteration(<<"L">>, << >>) \o <<Ok("printf", <<"a">>)>>)
SharedRuns == {<< >>, HandedRun}

InitShared ==
    /\ rhist \in SharedRuns
    /\ \E d \in {dilog(rhist # << >>, Recorded(rhist).file)} : Constructed(d)

CallBy(t, name, arg, d) ==
    [call |-> name, arg |-> arg, how |-> Returned(d), by |-> t]

\* the channel get works on: the one of dilogs, or a new one (lines 219-222)
Found(t) ==
    IF fThread_id = nothread THEN Created(~fWriting, file, t) ELSE Chan

\* dilog::get(channel, threadsafe) in thread t
Get(t, threadsafe) ==
    /\ proc = "run"
    /\ got[t] = "no"
    /\ \E d \in {get(Found(t), t, threadsafe)} :
           /\ Becomes(d)
           /\ hist' = Append(hist, CallBy(t, "get", threadsafe, d))
           /\ got' = [u \in Threads |->
                         IF u = t
                         THEN (IF d.exc = "none" THEN "yes" ELSE "no")
                         ELSE IF d.exc = "throw" /\ got[u] # "no"
                         THEN "raced"
                         ELSE got[u]]
    /\ UNCHANGED <<user, rhist>>

\* the channel as thread t calls into it
ChanOf(t) == [Chan EXCEPT !.tid = t]

\* what thread t may find when it runs Body on the channel
Outcomes(t, Body(_)) ==
    {Body(ChanOf(t))}
    \cup (IF got[t] = "raced"
             THEN {[Body([ChanOf(t) EXCEPT !.err = NoError])
                       EXCEPT !.err = fError],
                   Raise(Chan, "ub")}
             ELSE {})
    \cup (IF \E u \in Threads \ {t} : got[u] # "no"
             THEN {Raise(Chan, "ub")}
             ELSE {})

\* .printf("%s\n", text) on the reference of thread t
PrintfBy(t, text) ==
    /\ proc = "run"
    /\ got[t] # "no"
    /\ \E d \in Outcomes(t, LAMBDA c : printf(c, text)) :
           /\ Becomes(d)
           /\ hist' = Append(hist, CallBy(t, "printf", text, d))
    /\ got' = [got EXCEPT ![t] = "no"]
    /\ UNCHANGED <<user, rhist>>

\* the block constructor of thread t after its call of get
BlockBy(t, blockname) ==
    /\ proc = "run"
    /\ got[t] # "no"
    /\ Len(user) < MaxDepth
    /\ \E d \in Outcomes(t, LAMBDA c : Ctor(c, blockname)) :
           /\ Becomes(d)
           /\ user' = (IF d.exc = "none" THEN Append(user, Len(heap) + 1)
                       ELSE user)
           /\ hist' = Append(hist, CallBy(t, "block", blockname, d))
    /\ got' = [got EXCEPT ![t] = "no"]
    /\ UNCHANGED rhist

\* the destructor of the innermost block, in thread t, after its call of get
CloseBy(t) ==
    /\ proc = "run"
    /\ got[t] # "no"
    /\ user # << >>
    /\ \E d \in Outcomes(t, LAMBDA c : Delete(c, Top(user))) :
           /\ Becomes(d)
           /\ hist' = Append(hist, CallBy(t, "close", << >>, d))
    /\ user' = Pop(user)
    /\ got' = [got EXCEPT ![t] = "no"]
    /\ UNCHANGED rhist

\* the threads make MaxShared steps at most; threads that verify make
\* MaxHanded at most and let the first exception end the run
Sharing ==
    IF rhist = << >> THEN Len(hist) < MaxShared
    ELSE /\ Len(hist) < MaxHanded
         /\ IF hist = << >> THEN TRUE ELSE hist[Len(hist)].how = "ok"

NextShared ==
    \E t \in Threads :
        \/ \E threadsafe \in BOOLEAN : Sharing /\ Get(t, threadsafe)
        \/ Sharing /\ PrintfBy(t, <<"a">>)
        \/ Sharing /\ BlockBy(t, <<"L">>)
        \/ Sharing /\ CloseBy(t)

SpecShared == InitShared /\ [][NextShared]_vars

(***************************************************************************)
(* What the claims speak about.                                            *)
(***************************************************************************)
Verifying == ~fWriting
AllOk(h) == \A i \in 1..Len(h) : h[i].how = "ok"
Healthy == AllOk(hist) /\ fError.kind = "" /\ proc = "run"
\* h makes the calls of the first Len(h) calls of r
SameCalls(h, r) ==
    /\ Len(h) <= Len(r)
    /\ \A i \in 1..Len(h) : h[i].call = r[i].call /\ h[i].arg = r[i].arg
\* the step is a call of the user, and the call is name
Called(name) ==
    /\ Len(hist') = Len(hist) + 1
    /\ hist'[Len(hist')].call = name
HowReturned == hist'[Len(hist')].how
Passing == hist'[Len(hist')].arg

\* h starts with complete iterations of block L that hold leaf messages
\* only: their bodies, and the calls that follow them
RECURSIVE Bodies(_)
Bodies(h) ==
    LET closes == {j \in 1..Len(h) : h[j].call = "close"}
        n == CHOOSE j \in closes : \A k \in closes : j <= k
    IN  IF h = << >> \/ closes = {} THEN << >>
        ELSE IF h[1].call # "block" \/ h[1].arg # <<"L">> THEN << >>
        ELSE IF \E j \in 2..(n - 1) : h[j].call # "printf" THEN << >>
        ELSE <<[i \in 1..(n - 2) |-> h[i + 1].arg]>>
                \o Bodies(SubSeq(h, n + 1, Len(h)))
LoopCalls(its) ==
    Flat([i \in 1..Len(its) |-> Iteration(<<"L">>, Leaves(its[i]))])
Rest(h) == SubSeq(h, Len(LoopCalls(Bodies(h))) + 1, Len(h))
Reordered(its, f) == [i \in 1..Len(its) |-> its[f[i]]]

RecBodies == Bodies(rhist)
\* h begins a run of the iterations its[i], i in left, in some order,
\* followed by the calls after
RECURSIVE Begins(_, _, _, _)
Begins(h, its, left, after) ==
    IF left = {} THEN SameCalls(h, after)
    ELSE \E i \in left :
            LET c == Iteration(<<"L">>, Leaves(its[i]))
            IN  IF Len(h) <= Len(c) THEN SameCalls(h, c)
                ELSE /\ SameCalls(SubSeq(h, 1, Len(c)), c)
                     /\ Begins(SubSeq(h, Len(c) + 1, Len(h)), its,
                               left \ {i}, after)
\* the calls of hist begin a run of the recorded iterations in some order,
\* followed by what the recording run did after its loop
ReorderedRun ==
    /\ Len(hist) <= Len(rhist)
    /\ Begins(hist, RecBodies, 1..Len(RecBodies), Rest(rhist))
\* hist is complete iterations of L and nothing else
OnlyIterations(h) == Len(LoopCalls(Bodies(h))) = Len(h)
\* each iteration of vs is an iteration of rs, none of rs taken twice
MatchedOneToOne(vs, rs) ==
    \E f \in [1..Len(vs) -> 1..Len(rs)] :
        /\ \A i, j \in 1..Len(vs) : f[i] = f[j] => i = j
        /\ \A i \in 1..Len(vs) : vs[i] = rs[f[i]]

(***************************************************************************)
(* C1: when a verifying run repeats, call by call, the calls of the run    *)
(* that recorded the file, every call returns and no error is pending.     *)
(***************************************************************************)
C1_RoundTrip == (Verifying /\ SameCalls(hist, rhist)) => Healthy

\* a nested recording was verified in full
C1_Witness ==
    /\ Verifying /\ Healthy
    /\ Len(hist) = Len(rhist) /\ SameCalls(hist, rhist)
    /\ \E i \in 1..(Len(hist) - 2) :
          /\ hist[i].call = "block"
          /\ hist[i + 1].call = "block"
          /\ hist[i + 2].call = "printf"

(***************************************************************************)
(* C2: when the file holds a loop of block L under the root with leaf      *)
(* messages only, a verifying run that makes the recorded iterations in    *)
(* any order has every call return, and no error is pending.               *)
(***************************************************************************)
C2_ReorderedIterations == Healthy \/ ~(Verifying /\ ReorderedRun)

\* three different iterations were verified in full, the last recorded
\* one first, after a search that left unmatched iterations behind
C2_Witness ==
    /\ Verifying /\ Healthy /\ ReorderedRun
    /\ Len(hist) = Len(rhist)
    /\ Len(RecBodies) = 3
    /\ Bodies(hist)[1] = RecBodies[3]
    /\ \A i, j \in 1..3 : RecBodies[i] = RecBodies[j] => i = j
    /\ <<"c", "/", "L">> \in DOMAIN fBlinks

(***************************************************************************)
(* C3: against the recording of S4, the run that swaps the outer           *)
(* iterations and swaps the inner iterations in each has every call        *)
(* return, no error pending and no assertion failed.                       *)
(***************************************************************************)
C3_NestedReorder ==
    (Verifying /\ rhist = S4Run /\ SameCalls(hist, S4Swapped)) => Healthy

(***************************************************************************)
(* C4: when a verifying run of iterations of L has had every call return   *)
(* and no error is pending after its last close, its iterations are        *)
(* recorded iterations, message for message, no recorded iteration taken   *)
(* twice.                                                                  *)
(***************************************************************************)
C4_NoFalseAccept ==
    (/\ Verifying /\ Healthy
     /\ user = << >> /\ OnlyIterations(hist) /\ OnlyIterations(rhist))
        => MatchedOneToOne(Bodies(hist), RecBodies)

(***************************************************************************)
(* C5: in a verifying run with no block open, a message that is the next   *)
(* recorded line returns, and a message that differs from the next         *)
(* recorded line raises the message mismatch, reported at the 1-based      *)
(* index of that line.                                                     *)
(***************************************************************************)
AtRoot == user = << >>
C5_TopLevelMismatch ==
    [][(/\ Verifying /\ AtRoot /\ fError.kind = ""
        /\ ~fail /\ pos < Len(file)
        /\ Called("printf"))
          => IF MessageLine(fChannel, Passing) = file[pos + 1]
             THEN HowReturned = "ok" /\ fError'.kind = ""
             ELSE /\ HowReturned = "throw"
                  /\ fError' = [kind |-> "mismatch", line |-> pos + 1]]_vars

\* S1: a and b were recorded, a was verified, and the message that
\* replaces b was refused at line 2
C5_Witness ==
    /\ Verifying
    /\ Len(file) = 2
    /\ Len(hist) = 2
    /\ hist[1] = Ok("printf", <<"a">>)
    /\ hist[2].call = "printf" /\ hist[2].how = "throw"
    /\ fError = [kind |-> "mismatch", line |-> 2]

(***************************************************************************)
(* C6: against the recording of S3, a message of an iteration that no      *)
(* recorded iteration holds raises the message mismatch.                   *)
(***************************************************************************)
C6_DivergentIteration ==
    [][(/\ Verifying /\ rhist = S3Run /\ fError.kind = ""
        /\ Called("printf") /\ Passing = Foreign)
          => HowReturned = "throw" /\ fError'.kind = "mismatch"]_vars

(***************************************************************************)
(* C7: when the file holds two iterations of L and the verifying run has   *)
(* made both, a third iteration is refused at its block open as an         *)
(* unexpected frame, or at its first message as a failed search.           *)
(***************************************************************************)
\* hist is the two recorded iterations, in either order, and then extra
TwoThen(extra) ==
    /\ Verifying
    /\ Len(RecBodies) = 2
    /\ Len(hist) = Len(LoopCalls(RecBodies)) + Len(extra)
    /\ \E f \in Orders(2) :
          SameCalls(hist, LoopCalls(Reordered(RecBodies, f)) \o extra)
ThirdOpen == TwoThen(<<Ok("block", <<"L">>)>>)
ThirdMessage ==
    \E text \in Texts : TwoThen(<<Ok("block", <<"L">>), Ok("printf", text)>>)
Last == hist[Len(hist)]

C7_ExtraIteration ==
    /\ ThirdOpen => \/ Last.how = "ok"
                    \/ Last.how = "throw" /\ fError.kind = "block"
    /\ ThirdMessage => Last.how = "throw" /\ fError.kind = "mismatch"

(***************************************************************************)
(* C8: once an error is pending, a message, a block open and get_lineno    *)
(* raise it and leave the channel as it was.                               *)
(***************************************************************************)
Channel == <<file, pos, fail, fLineno, fBlocks, fBlanks, fBreplay, fRecord,
             fBlinks, fError>>
C8_ErrorsTerminal ==
    [][(/\ fError.kind # ""
        /\ Called("printf") \/ Called("block") \/ Called("get_lineno"))
          => HowReturned = "throw" /\ Channel' = Channel]_vars

(***************************************************************************)
(* C9: in a verifying run the close of the top block returns, and when it  *)
(* read to the end of the file without finding its closing frame, or a     *)
(* search for it failed, an error is pending afterwards.                   *)
(***************************************************************************)
C9_CloseReports ==
    [][(/\ Verifying /\ Called("close")
        /\ Top(user) = Top(fBlocks))
          => /\ HowReturned = "ok"
             /\ fail' => fError'.kind # ""]_vars

(***************************************************************************)
(* C10: in a verifying run with no error pending, a message or a block     *)
(* open that reads to the end of the file raises the read error, which is  *)
(* then pending.                                                           *)
(***************************************************************************)
C10_EndOfFile ==
    [][(/\ Verifying /\ fError.kind = ""
        /\ Called("printf") \/ Called("block")
        /\ fail')
          => HowReturned = "throw" /\ fError'.kind = "read"]_vars

(***************************************************************************)
(* C11: a call of get throws exactly when it asks for the thread check and *)
(* its thread is not the thread of the first get, which created the        *)
(* channel; the refused call leaves the thread error pending; a call from  *)
(* the creating thread never throws.  This holds for every interleaving of *)
(* the calls of get with each other and with the work of the threads.  The *)
(* get that the block constructor runs for the reorder search (lines 418   *)
(* and 94) is a checked get too: the thread error becomes pending in a     *)
(* call of a thread that is not the creating thread, and in no other.      *)
(***************************************************************************)
Creator == hist'[1].by
Caller == hist'[Len(hist')].by
C11_ThreadGuard ==
    [][/\ Called("get")
          => /\ HowReturned \in {"ok", "throw"}
             /\ HowReturned = "throw" <=> (Passing /\ Caller # Creator)
             /\ HowReturned = "throw" => fError' = ThreadError
             /\ Caller = Creator => HowReturned = "ok"
       /\ (fError' = ThreadError /\ fError # ThreadError)
          => Caller # Creator]_vars

\* a thread that got the channel without the check sent a message or closed
\* a block, the reorder search made a block, and the get of its constructor
\* refused the thread
RefusedInReplay ==
    /\ ~fWriting /\ fError = ThreadError /\ hist # << >>
    /\ hist[Len(hist)].call \in {"printf", "close"}
    /\ hist[Len(hist)].how \in {"throw", "terminate"}
    /\ hist[Len(hist)].by # hist[1].by
    /\ \A i \in 1..Len(hist) : hist[i].call = "get" => hist[i].how = "ok"

\* a checked get of another thread was refused while the creating thread
\* held its reference, and the creating thread passed the check after that
C11_Witness ==
    \E i, j, k \in 1..Len(hist) :
        /\ i < j /\ j < k
        /\ hist[i].call = "get" /\ hist[i].how = "ok"
        /\ hist[i].by = hist[1].by
        /\ hist[j].call = "get" /\ hist[j].how = "throw"
        /\ hist[j].by # hist[1].by /\ hist[j].arg
        /\ \A n \in i..j : ~(hist[n].by = hist[i].by /\ hist[n].call # "get")
        /\ hist[k].call = "get" /\ hist[k].how = "ok" /\ hist[k].arg
        /\ hist[k].by = hist[1].by

(***************************************************************************)
(* C12: a thread that is not the creating thread, that a checked get has   *)
(* refused and that then got the channel from an unchecked get, sends its  *)
(* message and the message returns; no other thread is at work on the      *)
(* channel meanwhile.                                                      *)
(***************************************************************************)
OptedOut(t) ==
    \E i, j \in 1..Len(hist) :
        /\ i < j
        /\ hist[i].by = t /\ hist[i].call = "get"
        /\ hist[i].arg /\ hist[i].how = "throw"
        /\ hist[j].by = t /\ hist[j].call = "get"
        /\ ~hist[j].arg /\ hist[j].how = "ok"
        /\ \A n \in (j + 1)..Len(hist) : hist[n].by # t
Alone(t) == got[t] = "yes" /\ \A u \in Threads \ {t} : got[u] = "no"
C12_OptOutSucceeds ==
    [][\A t \in Threads :
          (OptedOut(t) /\ Alone(t) /\ Called("printf") /\ Caller = t)
             => HowReturned = "ok"]_vars

(***************************************************************************)
(* C13: the file of a recording run never closes more blocks than it has   *)
(* opened, and once every block of the user is destroyed, in whatever      *)
(* order, every opening frame is followed by the closing frame of the same *)
(* prefix.                                                                 *)
(***************************************************************************)
IsOpening(line) == line[1] = "[" /\ line[Len(line)] = "["
IsClosing(line) == line[1] = "]"
PrefixOf(line) == SubSeq(line, 2, Len(line) - 1)
Depth(lines, k) ==
    Cardinality({i \in 1..k : IsOpening(lines[i])})
        - Cardinality({i \in 1..k : IsClosing(lines[i])})
Balanced(lines) ==
    \A i \in 1..Len(lines) :
        IsOpening(lines[i])
           => \E j \in (i + 1)..Len(lines) :
                 lines[j] = CloseFrame(PrefixOf(lines[i]))
C13_RecordBalance ==
    fWriting => /\ \A k \in 1..Len(file) : Depth(file, k) >= 0
                /\ user = << >> => Balanced(file)

(***************************************************************************)
(* C14: in a recording run with scoped blocks the line counter is the      *)
(* number of lines of the file, and every block open, message and block    *)
(* close writes one line and adds one to the counter.                      *)
(***************************************************************************)
C14_RecordLineCounter ==
    /\ [](fWriting => fLineno = Len(file))
    /\ [][(/\ fWriting
           /\ Called("block") \/ Called("printf") \/ Called("close")
           /\ HowReturned = "ok")
             => /\ Len(file') = Len(file) + 1
                /\ SubSeq(file', 1, Len(file)) = file
                /\ fLineno' = fLineno + 1]_vars

\* a nested block with a message was recorded and closed: 5 lines
C14_Witness ==
    /\ fWriting /\ proc = "run" /\ user = << >>
    /\ fLineno = 5 /\ Len(file) = 5
    /\ \E i \in 1..Len(file) : file[i] = MessageLine(<<"c", "/", "L", "/", "L">>, <<"a">>)

(***************************************************************************)
(* C15: when a verifying run has made all the recorded iterations of the   *)
(* loop, in the recorded order or in another, and every call returned, the *)
(* line counter after the last close is the number of lines of the file.   *)
(***************************************************************************)
AllIterationsMatched ==
    /\ Verifying /\ Healthy
    /\ rhist # << >> /\ OnlyIterations(rhist)
    /\ Len(hist) = Len(rhist) /\ ReorderedRun
C15_FinalLineCounter == AllIterationsMatched => fLineno = Len(file)

\* three recorded iterations were verified with the last one first
C15_Witness ==
    /\ AllIterationsMatched
    /\ Len(RecBodies) = 3
    /\ RecBodies[3] # RecBodies[1] /\ RecBodies[3] # RecBodies[2]
    /\ Bodies(hist)[1] = RecBodies[3]
    /\ fLineno = Len(file)

(***************************************************************************)
(* C16: in a verifying run a message or a block open that returns leaves   *)
(* the read position of the file where it was or further on, also when it  *)
(* searched and went on to an unmatched iteration kept in fBlinks.         *)
(***************************************************************************)
C16_ReaderMonotonic ==
    [][(/\ Verifying
        /\ Called("printf") \/ Called("block")
        /\ HowReturned = "ok")
          => pos' >= pos]_vars

\* recorded a, b, b; the run made b and makes b again: its message finds a,
\* and the search goes past the matched iteration to the third one
C16_Witness ==
    /\ Verifying /\ Healthy
    /\ RecBodies = << <<(<<"a">>)>>, <<(<<"b">>)>>, <<(<<"b">>)>> >>
    /\ Len(hist) = 5
    /\ hist[2].arg = <<"b">> /\ hist[5].arg = <<"b">>
    /\ pos = 8

(***************************************************************************)
(* C17: a message or a close of a verifying run that searches returns or   *)
(* raises: no call enters next_block more often than the file has lines.   *)
(***************************************************************************)
C17_SearchTerminates == proc # "hang"

\* S4 was recorded and the run starts with the second outer iteration: its
\* first message is found after searches that left the inner and the outer
\* iteration
C17_Witness ==
    /\ Verifying /\ Healthy
    /\ rhist = S4Run
    /\ Len(hist) = 3
    /\ hist[3] = Ok("printf", <<"o", "1", "_", "i", "0">>)
    /\ pos = 11

(***************************************************************************)
(* C18: while the process runs, fBlocks is not empty and its bottom is the *)
(* root block bot of the channel, whose prefix is the channel name.        *)
(***************************************************************************)
C18_StackNeverEmpty ==
    proc = "run" => /\ fBlocks # << >>
                    /\ fBlocks[1] = 1
                    /\ heap[1].prefix = fChannel

(***************************************************************************)
(* C19: while the process runs, and when an assert of next_block stops it *)
(* in the middle of a replay, each block of fBlocks has the prefix of the  *)
(* block below it, a slash and its own name, and no block is on fBlocks    *)
(* twice.                                                                  *)
(***************************************************************************)
C19_PrefixChain ==
    proc \in {"run", "assert"} =>
       /\ \A i \in 2..Len(fBlocks) :
             heap[fBlocks[i]].prefix
                = heap[fBlocks[i - 1]].prefix \o <<"/">> \o heap[fBlocks[i]].name
       /\ \A i, j \in 1..Len(fBlocks) : fBlocks[i] = fBlocks[j] => i = j

(***************************************************************************)
(* C20: no assert of next_block stops the process with a block left on     *)
(* fBreplay or on fBlanks: when a replay has gone through the journal,     *)
(* also one that met the end of the file, both stacks are empty.           *)
(***************************************************************************)
C20_StacksEmptyAfterSearch ==
    ~(proc = "assert" /\ (fBreplay # << >> \/ fBlanks # << >>))

(***************************************************************************)
(* C21: in a verifying run the journal fRecord is empty whenever only the  *)
(* root block is on fBlocks and no error is pending; a message that        *)
(* returns with only the root block open leaves the journal alone, a block *)
(* open that returns appends the EnterBlock entry of its block, the close  *)
(* of a block inside another user block appends its LeaveBlock entry, and  *)
(* the close of the outermost user block empties the journal.              *)
(***************************************************************************)
JournalEmptyAtRoot ==
    (Verifying /\ proc = "run" /\ Len(fBlocks) = 1 /\ fError.kind = "")
       => fRecord = << >>
JournalStep ==
    /\ (Called("printf") /\ HowReturned = "ok" /\ Len(fBlocks) = 1)
          => fRecord' = fRecord
    /\ (Called("block") /\ HowReturned = "ok")
          => fRecord' = Append(fRecord, EnterBlock(heap'[Top(user')].prefix))
    /\ (Called("close") /\ HowReturned = "ok" /\ Len(fBlocks) > 2)
          => fRecord' = Append(fRecord, LeaveBlock(heap[Top(user)].prefix))
    /\ (Called("close") /\ HowReturned = "ok" /\ Len(fBlocks) = 2)
          => fRecord' = << >>
C21_JournalScoping ==
    /\ []JournalEmptyAtRoot
    /\ [][Verifying => JournalStep]_vars

(***************************************************************************)
(* C22: in a verifying run every offset kept in fBlinks[prefix] is the     *)
(* start of an opening frame of prefix or the place right behind a closing *)
(* frame of prefix.                                                        *)
(***************************************************************************)
ReEntry(prefix, off) ==
    \/ off \in 0..(Len(file) - 1) /\ file[off + 1] = OpenFrame(prefix)
    \/ off \in 1..Len(file) /\ file[off] = CloseFrame(prefix)
C22_ValidReEntryPoints ==
    (Verifying /\ proc = "run")
       => \A prefix \in DOMAIN fBlinks :
             \A off \in DOMAIN fBlinks[prefix] : ReEntry(prefix, off)

====
